---- MODULE Spec2Model ----
(***************************************************************************)
(* Model of rigolbin.py: the header decoder (_read_header), the file       *)
(* decoder (read_rigol_bin) and the sample buffer                          *)
(* (RigolBinaryWaveformData).                                              *)
(*                                                                         *)
(* A byte stream is modelled by its length (avail), the read position      *)
(* (pos) and the content of each region, which is chosen when the region   *)
(* is read.  A behaviour is one use of the module through one of its two   *)
(* entry points (entry): decoding a file with read_rigol_bin, or using the *)
(* class RigolBinaryWaveformData directly.  In the second case the stream  *)
(* is the one the global strm is bound to; it holds StrmLen bytes, so that *)
(* read_from_stream meets both complete and short reads.                   *)
(*                                                                         *)
(* rigolbin.py reads the names strm, xorigin and xincr without ever        *)
(* binding them: they are looked up in the module's globals when the line  *)
(* runs and raise NameError when unbound.  moduleGlobals is the set of     *)
(* those names that the importing program has bound.                       *)
(*                                                                         *)
(* x-coordinates are counted in units of 0.5, so that xorigin = 2 and      *)
(* xincr = 1 stand for 1.0 and 0.5; sums of such values are exact in       *)
(* binary floating point.  A 4-byte float sample is represented by its     *)
(* little-endian 32-bit pattern.                                           *)
(***************************************************************************)
EXTENDS Integers, Sequences, FiniteSets, TLC

VARIABLES entry, moduleGlobals, pos, avail, shortRead,
          pc, i, fhdr, wvhdr, wvdathdr, waveforms, result, lastHdr,
          buf, lastCall, toListCalls

vars == <<entry, moduleGlobals, pos, avail, shortRead,
          pc, i, fhdr, wvhdr, wvdathdr, waveforms, result, lastHdr,
          buf, lastCall, toListCalls>>

streamVars == <<pos, avail, shortRead>>
readerVars == <<pc, i, fhdr, wvhdr, wvdathdr, waveforms, result, lastHdr>>
bufferVars == <<buf, lastCall, toListCalls>>

(***************************************************************************)
(* Bounds                                                                  *)
(***************************************************************************)
MaxWfms == 2
MaxExtra == 2
MaxBufSz == 4
MaxRawLen == 4
MaxIdx == 5
MaxToListCalls == 2

(***************************************************************************)
(* Struct layouts (little-endian, no padding)                              *)
(***************************************************************************)
FileHdrSize == 16
WfHdrSize == 128
DataHdrSize == 16

StaticSize(T) ==
    CASE T = "file" -> FileHdrSize
      [] T = "wf"   -> WfHdrSize
      [] T = "data" -> DataHdrSize

HasSz(T) == T \in {"wf", "data"}

Min(a, b) == IF a < b THEN a ELSE b
Max(a, b) == IF a < b THEN b ELSE a

(***************************************************************************)
(* Input domains                                                           *)
(***************************************************************************)
ByteVals == {10, 20}
BppSet == {0, 1, 3, 4}
XOrigins == {0, 2}
XIncrs == {1, 2}
GlobalNames == {"strm", "xorigin", "xincr"}
ExtraSet == {-1, 0, MaxExtra}
StrmLen == MaxBufSz - 1
MaxAvail == FileHdrSize + WfHdrSize + MaxExtra + DataHdrSize + MaxExtra + MaxBufSz

BytesOfLen(n) == [1..n -> ByteVals]
RawSeqs == UNION {BytesOfLen(n) : n \in 0..MaxRawLen}

FileHdrs == [nwfms : 0..MaxWfms, textOk : BOOLEAN]
WfHdrs == [sz : {WfHdrSize + e : e \in ExtraSet}, xorigin : XOrigins,
           xincr : XIncrs, textOk : BOOLEAN]
DataHdrs == [sz : {DataHdrSize + e : e \in ExtraSet}, bpp : BppSet,
             bufsz : 0..MaxBufSz]

NoFileHdr == [exists |-> FALSE, nwfms |-> 0]
NoWfHdr == [exists |-> FALSE, sz |-> 0, xorigin |-> 0, xincr |-> 0]
NoDataHdr == [exists |-> FALSE, sz |-> 0, bpp |-> 0, bufsz |-> 0]
NoPyList == [set |-> FALSE, val |-> <<>>]
NoBuf == [exists |-> FALSE, rawdat |-> <<>>, bpp |-> 0, pylist |-> NoPyList,
          xorigin |-> 0, xincr |-> 0]
NoLastHdr == [T |-> "none", start |-> 0, sz |-> 0, outcome |-> "none", posAfter |-> 0]
NoRet == [err |-> "", val |-> 0, seq |-> <<>>]
NoCall == [op |-> "none", idx |-> 0, bpp |-> 0, rawlen |-> 0, ret |-> NoRet]

(***************************************************************************)
(* Header decoder                                                          *)
(***************************************************************************)

\* RigolBinaryHeader.extra_bytes_after: raises when the reported size is
\* smaller than the struct size, otherwise the difference; 0 without sz.
ExtraBytesAfterClamped(T, sz) ==
    IF HasSz(T)
    THEN [raised |-> FALSE, val |-> Max(sz - StaticSize(T), 0)]
    ELSE [raised |-> FALSE, val |-> 0]

ExtraBytesAfter(T, sz) ==
    IF HasSz(T)
    THEN IF sz < StaticSize(T)
         THEN [raised |-> TRUE, val |-> 0]
         ELSE [raised |-> FALSE, val |-> sz - StaticSize(T)]
    ELSE [raised |-> FALSE, val |-> 0]

\* f.read(n) at position p: the number of bytes returned.
StreamRead(p, n) == Min(n, avail - p)

\* T.from_packed(packed_data) followed by __post_init__: struct.error when
\* the packed data is not exactly the struct size, ValueError when a text or
\* date field does not decode.
FromPackedPadded(T, got, textOk) ==
    IF ~textOk THEN "ValueError" ELSE "ok"

FromPacked(T, got, textOk) ==
    IF got # StaticSize(T) THEN "struct.error"
    ELSE IF ~textOk THEN "ValueError"
    ELSE "ok"

\* _read_header(f, T) at position p, where h is the content of the header
\* region.  short: some f.read returned fewer bytes than it asked for.
ReadHeader(T, h, p) ==
    LET got == StreamRead(p, StaticSize(T))
        p1 == p + got
        fp == FromPacked(T, got, h.textOk)
        eb == ExtraBytesAfter(T, h.sz)
        egot == StreamRead(p1, eb.val)
    IN  IF fp # "ok"
        THEN [outcome |-> fp, pos |-> p1, short |-> got < StaticSize(T)]
        ELSE IF eb.raised
        THEN [outcome |-> "ValueError", pos |-> p1, short |-> FALSE]
        ELSE IF eb.val > 0
        THEN [outcome |-> "ok", pos |-> p1 + egot, short |-> egot < eb.val]
        ELSE [outcome |-> "ok", pos |-> p1, short |-> FALSE]

HdrLog(T, h, p, r) ==
    [T |-> T, start |-> p, sz |-> h.sz, outcome |-> r.outcome, posAfter |-> r.pos]

(***************************************************************************)
(* Sample buffer                                                           *)
(***************************************************************************)

\* The match statement of __init__: the widths that get an item format.
InitAcceptsAnyBpp(bpp) == TRUE

InitAcceptsBpp(bpp) == bpp \in {1, 4}

\* RigolBinaryWaveformData.__init__ called with the parameters named in kw
\* (positionally or by keyword).
WaveformDataInit(raw, kw, dh, wh) ==
    IF kw # {"wfhdr", "wfdhdr", "fhdr"}
    THEN [outcome |-> "TypeError", buf |-> NoBuf]
    ELSE IF ~InitAcceptsBpp(dh.bpp)
    THEN [outcome |-> "ValueError", buf |-> NoBuf]
    ELSE IF "xorigin" \notin moduleGlobals \/ "xincr" \notin moduleGlobals
    THEN [outcome |-> "NameError", buf |-> NoBuf]
    ELSE [outcome |-> "ok",
          buf |-> [exists |-> TRUE, rawdat |-> raw, bpp |-> dh.bpp,
                   pylist |-> NoPyList,
                   xorigin |-> wh.xorigin, xincr |-> wh.xincr]]

\* The classmethod read_from_stream(cls, wfdhdr, **kwargs) called with npos
\* positional arguments and the keywords kw; raw is what strm.read returns.
ReadFromStream(npos, kw, dh, wh, raw) ==
    IF npos # 1
    THEN [outcome |-> "TypeError", buf |-> NoBuf, read |-> FALSE]
    ELSE IF "strm" \notin moduleGlobals
    THEN [outcome |-> "NameError", buf |-> NoBuf, read |-> FALSE]
    ELSE LET r == WaveformDataInit(raw, kw \cup {"wfdhdr"}, dh, wh)
         IN  [outcome |-> r.outcome, buf |-> r.buf, read |-> TRUE]

\* The byte strings strm.read(n) can return at the current position.
StrmReads(n) == BytesOfLen(StreamRead(pos, n))

\* __len__: len(self._rawdat) // self._bpp
BufLen(b) == Len(b.rawdat) \div b.bpp

\* struct.unpack(self.itemfmt, buf)[0]: "<B" takes exactly one byte and
\* gives its value, "<f" takes exactly four bytes, little-endian.
Unpack(bytes, bpp) ==
    IF Len(bytes) # bpp
    THEN [err |-> "struct.error", val |-> 0, seq |-> <<>>]
    ELSE IF bpp = 1
    THEN [err |-> "", val |-> bytes[1], seq |-> <<>>]
    ELSE [err |-> "",
          val |-> bytes[1] + 256 * bytes[2] + 65536 * bytes[3] + 16777216 * bytes[4],
          seq |-> <<>>]

\* Python's s[a:b] for integers a, b (0-based, negative values count from
\* the end, out-of-range values are clipped).
PySlice(s, a, b) ==
    LET n == Len(s)
        lo == IF a < 0 THEN Max(a + n, 0) ELSE Min(a, n)
        hi == IF b < 0 THEN Max(b + n, 0) ELSE Min(b, n)
    IN  IF lo < hi THEN SubSeq(s, lo + 1, hi) ELSE <<>>

\* Python's lst[idx] on a list.
PyListIndex(lst, idx) ==
    LET n == Len(lst)
    IN  IF idx >= 0 /\ idx < n THEN [err |-> "", val |-> lst[idx + 1], seq |-> <<>>]
        ELSE IF idx < 0 /\ idx >= -n THEN [err |-> "", val |-> lst[n + idx + 1], seq |-> <<>>]
        ELSE [err |-> "IndexError", val |-> 0, seq |-> <<>>]

\* The values the for loop of __iter__ yields from the raw bytes.
RawItems(b) ==
    [k \in 1..(Len(b.rawdat) \div b.bpp) |->
        Unpack(PySlice(b.rawdat, (k - 1) * b.bpp, k * b.bpp), b.bpp).val]

\* list(iter(b)): the cached list, when there is one, and then the loop over
\* the raw bytes (no return after the yield from).
IterOut(b) ==
    [err |-> "", val |-> 0,
     seq |-> (IF b.pylist.set THEN b.pylist.val ELSE <<>>) \o RawItems(b)]

\* __getitem__
GetItemOut(b, idx) ==
    IF b.pylist.set
    THEN PyListIndex(b.pylist.val, idx)
    ELSE Unpack(PySlice(b.rawdat, idx * b.bpp, idx * b.bpp + b.bpp), b.bpp)

\* to_list: struct.unpack(self.arrayfmt, self._rawdat), where arrayfmt holds
\* len(self) items; struct.error unless the raw bytes are exactly that long.
ToListOutAppending(b) ==
    IF Len(b.rawdat) # BufLen(b) * b.bpp
    THEN [err |-> "struct.error", val |-> 0, seq |-> <<>>]
    ELSE [err |-> "", val |-> 0,
          seq |-> (IF b.pylist.set THEN b.pylist.val ELSE <<>>) \o RawItems(b)]

ToListOut(b) ==
    IF Len(b.rawdat) # BufLen(b) * b.bpp
    THEN [err |-> "struct.error", val |-> 0, seq |-> <<>>]
    ELSE [err |-> "", val |-> 0, seq |-> RawItems(b)]

\* xiter: yields xorigin, then adds xincr and yields once per index of
\* range(len(self)).
RECURSIVE XIterFrom(_, _, _)
XIterFrom(xval, xincr, n) ==
    IF n = 0 THEN <<>>
    ELSE <<xval + xincr>> \o XIterFrom(xval + xincr, xincr, n - 1)

XIterOut(b) == <<b.xorigin>> \o XIterFrom(b.xorigin, b.xincr, BufLen(b))

\* xlist: list(self.xiter)
XListOut(b) == [err |-> "", val |-> 0, seq |-> XIterOut(b)]

(***************************************************************************)
(* File decoder: read_rigol_bin                                            *)
(***************************************************************************)

\* range(fhdr.nwfms)
LoopCount(nwfms) == nwfms

Fail(err) ==
    /\ result' = err
    /\ pc' = "done"

ReadFileHeader ==
    /\ entry = "file"
    /\ pc = "start"
    /\ \E h \in FileHdrs :
         LET hh == [sz |-> 0, textOk |-> h.textOk]
             r == ReadHeader("file", hh, pos)
         IN  /\ pos' = r.pos
             /\ shortRead' = (shortRead \/ r.short)
             /\ lastHdr' = HdrLog("file", hh, pos, r)
             /\ IF r.outcome = "ok"
                THEN /\ fhdr' = [exists |-> TRUE, nwfms |-> h.nwfms]
                     /\ pc' = "loop"
                     /\ UNCHANGED result
                ELSE /\ Fail(r.outcome)
                     /\ UNCHANGED fhdr
    /\ UNCHANGED <<entry, moduleGlobals, avail, i, wvhdr, wvdathdr, waveforms>>
    /\ UNCHANGED bufferVars

LoopTest ==
    /\ entry = "file"
    /\ pc = "loop"
    /\ IF i < LoopCount(fhdr.nwfms)
       THEN /\ pc' = "wvhdr"
            /\ UNCHANGED result
       ELSE /\ pc' = "done"
            /\ result' = "ok"
    /\ UNCHANGED <<entry, moduleGlobals, i, fhdr, wvhdr, wvdathdr, waveforms, lastHdr>>
    /\ UNCHANGED streamVars
    /\ UNCHANGED bufferVars

ReadWaveformHeader ==
    /\ entry = "file"
    /\ pc = "wvhdr"
    /\ \E h \in WfHdrs :
         LET r == ReadHeader("wf", h, pos)
         IN  /\ pos' = r.pos
             /\ shortRead' = (shortRead \/ r.short)
             /\ lastHdr' = HdrLog("wf", h, pos, r)
             /\ IF r.outcome = "ok"
                THEN /\ wvhdr' = [exists |-> TRUE, sz |-> h.sz,
                                  xorigin |-> h.xorigin, xincr |-> h.xincr]
                     /\ pc' = "wvdathdr"
                     /\ UNCHANGED result
                ELSE /\ Fail(r.outcome)
                     /\ UNCHANGED wvhdr
    /\ UNCHANGED <<entry, moduleGlobals, avail, i, fhdr, wvdathdr, waveforms>>
    /\ UNCHANGED bufferVars

ReadWaveformDataHeader ==
    /\ entry = "file"
    /\ pc = "wvdathdr"
    /\ \E h \in DataHdrs :
         LET hh == [sz |-> h.sz, textOk |-> TRUE]
             r == ReadHeader("data", hh, pos)
         IN  /\ pos' = r.pos
             /\ shortRead' = (shortRead \/ r.short)
             /\ lastHdr' = HdrLog("data", hh, pos, r)
             /\ IF r.outcome = "ok"
                THEN /\ wvdathdr' = [exists |-> TRUE, sz |-> h.sz,
                                     bpp |-> h.bpp, bufsz |-> h.bufsz]
                     /\ pc' = "data"
                     /\ UNCHANGED result
                ELSE /\ Fail(r.outcome)
                     /\ UNCHANGED wvdathdr
    /\ UNCHANGED <<entry, moduleGlobals, avail, i, fhdr, wvhdr, waveforms>>
    /\ UNCHANGED bufferVars

\* Lines 170-171: read_from_stream(f, wvdathdr, wvhdr), three positional
\* arguments and no keywords, then the append.
ReadWaveformData ==
    /\ entry = "file"
    /\ pc = "data"
    /\ \E raw \in StrmReads(wvdathdr.bufsz) :
         LET r == ReadFromStream(3, {}, wvdathdr, wvhdr, raw)
         IN  /\ pos' = IF r.read THEN pos + Len(raw) ELSE pos
             /\ shortRead' = (shortRead \/ (r.read /\ Len(raw) < wvdathdr.bufsz))
             /\ IF r.outcome = "ok"
                THEN /\ waveforms' = Append(waveforms,
                                       [wvhdr |-> wvhdr, wvdathdr |-> wvdathdr,
                                        wvdat |-> r.buf])
                     /\ i' = i + 1
                     /\ pc' = "loop"
                     /\ UNCHANGED result
                ELSE /\ Fail(r.outcome)
                     /\ UNCHANGED <<waveforms, i>>
    /\ UNCHANGED <<entry, moduleGlobals, avail, fhdr, wvhdr, wvdathdr, lastHdr>>
    /\ UNCHANGED bufferVars

(***************************************************************************)
(* Direct use of RigolBinaryWaveformData                                   *)
(***************************************************************************)
Call(op, idx, bpp, rawlen, ret) ==
    [op |-> op, idx |-> idx, bpp |-> bpp, rawlen |-> rawlen, ret |-> ret]

ErrRet(err) == [err |-> err, val |-> 0, seq |-> <<>>]

\* RigolBinaryWaveformData(rawdat, wfhdr, wfdhdr, fhdr)
Construct ==
    /\ entry = "buffer"
    /\ ~buf.exists
    /\ \E raw \in RawSeqs, bpp \in BppSet, xo \in XOrigins, xi \in XIncrs :
         LET dh == [exists |-> TRUE, sz |-> DataHdrSize, bpp |-> bpp, bufsz |-> Len(raw)]
             wh == [exists |-> TRUE, sz |-> WfHdrSize, xorigin |-> xo, xincr |-> xi]
             r == WaveformDataInit(raw, {"wfhdr", "wfdhdr", "fhdr"}, dh, wh)
         IN  /\ buf' = r.buf
             /\ lastCall' = Call("init", 0, bpp, Len(raw),
                                 ErrRet(IF r.outcome = "ok" THEN "" ELSE r.outcome))
    /\ UNCHANGED <<entry, moduleGlobals, toListCalls>>
    /\ UNCHANGED streamVars
    /\ UNCHANGED readerVars

\* RigolBinaryWaveformData.read_from_stream(wfdhdr, **kw) on the stream that
\* the global strm is bound to.
ReadFromStreamCall ==
    /\ entry = "buffer"
    /\ ~buf.exists
    /\ \E kw \in {{"wfhdr", "fhdr"}, {}}, bpp \in BppSet, bufsz \in 0..MaxBufSz,
          xo \in XOrigins, xi \in XIncrs :
         \E raw \in StrmReads(bufsz) :
           LET dh == [exists |-> TRUE, sz |-> DataHdrSize, bpp |-> bpp, bufsz |-> bufsz]
               wh == [exists |-> TRUE, sz |-> WfHdrSize, xorigin |-> xo, xincr |-> xi]
               r == ReadFromStream(1, kw, dh, wh, raw)
           IN  /\ buf' = r.buf
               /\ pos' = IF r.read THEN pos + Len(raw) ELSE pos
               /\ shortRead' = (shortRead \/ (r.read /\ Len(raw) < bufsz))
               /\ lastCall' = Call("read_from_stream", 0, bpp, bufsz,
                                   ErrRet(IF r.outcome = "ok" THEN "" ELSE r.outcome))
    /\ UNCHANGED <<entry, moduleGlobals, avail, toListCalls>>
    /\ UNCHANGED readerVars

\* list(iter(buf))
Iterate ==
    /\ entry = "buffer"
    /\ buf.exists
    /\ lastCall' = Call("iter", 0, buf.bpp, Len(buf.rawdat), IterOut(buf))
    /\ UNCHANGED <<entry, moduleGlobals, buf, toListCalls>>
    /\ UNCHANGED streamVars
    /\ UNCHANGED readerVars

\* buf[idx]
GetItem ==
    /\ entry = "buffer"
    /\ buf.exists
    /\ \E idx \in (-MaxIdx)..MaxIdx :
         lastCall' = Call("getitem", idx, buf.bpp, Len(buf.rawdat), GetItemOut(buf, idx))
    /\ UNCHANGED <<entry, moduleGlobals, buf, toListCalls>>
    /\ UNCHANGED streamVars
    /\ UNCHANGED readerVars

\* buf.to_list(): the cache is set only when unpack did not raise.
ToList ==
    /\ entry = "buffer"
    /\ buf.exists
    /\ toListCalls < MaxToListCalls
    /\ toListCalls' = toListCalls + 1
    /\ LET out == ToListOut(buf)
       IN  /\ lastCall' = Call("to_list", 0, buf.bpp, Len(buf.rawdat), out)
           /\ buf' = IF out.err = ""
                     THEN [buf EXCEPT !.pylist = [set |-> TRUE, val |-> out.seq]]
                     ELSE buf
    /\ UNCHANGED <<entry, moduleGlobals>>
    /\ UNCHANGED streamVars
    /\ UNCHANGED readerVars

\* buf.xlist
XList ==
    /\ entry = "buffer"
    /\ buf.exists
    /\ lastCall' = Call("xlist", 0, buf.bpp, Len(buf.rawdat), XListOut(buf))
    /\ UNCHANGED <<entry, moduleGlobals, buf, toListCalls>>
    /\ UNCHANGED streamVars
    /\ UNCHANGED readerVars

(***************************************************************************)
(* Specification                                                           *)
(***************************************************************************)
Init ==
    /\ entry \in {"file", "buffer"}
    /\ moduleGlobals \in IF entry = "file" THEN {{}, GlobalNames} ELSE SUBSET GlobalNames
    /\ pos = 0
    /\ avail \in IF entry = "file" THEN 0..MaxAvail ELSE {StrmLen}
    /\ shortRead = FALSE
    /\ pc = "start"
    /\ i = 0
    /\ fhdr = NoFileHdr
    /\ wvhdr = NoWfHdr
    /\ wvdathdr = NoDataHdr
    /\ waveforms = <<>>
    /\ result = "none"
    /\ lastHdr = NoLastHdr
    /\ buf = NoBuf
    /\ lastCall = NoCall
    /\ toListCalls = 0

Next ==
    \/ ReadFileHeader
    \/ LoopTest
    \/ ReadWaveformHeader
    \/ ReadWaveformDataHeader
    \/ ReadWaveformData
    \/ Construct
    \/ ReadFromStreamCall
    \/ Iterate
    \/ GetItem
    \/ ToList
    \/ XList

Spec == Init /\ [][Next]_vars

(***************************************************************************)
(* Properties                                                              *)
(***************************************************************************)
Supported == {1, 4}

\* The stream read by read_rigol_bin is the file header followed by exactly
\* nwfms well-formed, complete waveform blocks.
C1_WellFormed ==
    /\ entry = "file"
    /\ ~shortRead
    /\ lastHdr.outcome = "ok"
    /\ wvdathdr.exists =>
         /\ wvdathdr.bpp \in Supported
         /\ wvdathdr.bufsz % wvdathdr.bpp = 0
         /\ Len(waveforms) + 1 = fhdr.nwfms
         /\ avail = pos + wvdathdr.bufsz

\* C1: for a well-formed stream that declares nwfms = n and holds n complete
\* blocks with bpp in {1, 4}, read_rigol_bin returns n triples in stream
\* order, each sample buffer holding the bufsz bytes after its data header.
C1_Claim ==
    (pc = "done" /\ C1_WellFormed) =>
        /\ result = "ok"
        /\ Len(waveforms) = fhdr.nwfms
        /\ \A k \in 1..Len(waveforms) :
             Len(waveforms[k].wvdat.rawdat) = waveforms[k].wvdathdr.bufsz

\* C2: a successful _read_header leaves the stream at start + sz when sz
\* exceeds the static size, and at start + static size when the header has
\* no sz field or sz equals the static size.
C2_Claim ==
    lastHdr.outcome = "ok" =>
        lastHdr.posAfter = lastHdr.start +
            (IF HasSz(lastHdr.T) /\ lastHdr.sz > StaticSize(lastHdr.T)
             THEN lastHdr.sz ELSE StaticSize(lastHdr.T))

\* C3: a waveform header or data header whose sz is smaller than its static
\* size is never decoded successfully: _read_header raises and
\* read_rigol_bin ends in an error.
C3_InvalidSizeRejected ==
    (lastHdr.T \in {"wf", "data"} /\ lastHdr.sz < StaticSize(lastHdr.T)) =>
        /\ lastHdr.outcome \notin {"ok", "none"}
        /\ pc = "done"
        /\ result = lastHdr.outcome

C3_Witness ==
    /\ lastHdr.T = "data"
    /\ lastHdr.sz < DataHdrSize
    /\ lastHdr.posAfter = lastHdr.start + DataHdrSize
    /\ lastHdr.outcome = "ValueError"
    /\ result = "ValueError"

\* The stream ended before nwfms complete blocks: a read came up short, the
\* stream is shorter than the static parts of nwfms blocks, or it ends
\* inside the sample bytes of the block being read.
C4_Truncated ==
    \/ shortRead
    \/ fhdr.exists /\ avail < FileHdrSize + fhdr.nwfms * (WfHdrSize + DataHdrSize)
    \/ /\ wvdathdr.exists
       /\ lastHdr.T = "data"
       /\ lastHdr.outcome = "ok"
       /\ avail - pos < wvdathdr.bufsz

\* C4: when the stream ends before nwfms complete blocks have been read,
\* read_rigol_bin ends in an error; a returned result has nwfms waveforms,
\* each with a sample buffer of bufsz bytes.
C4_TruncationDetected ==
    /\ (entry = "file" /\ pc = "done" /\ C4_Truncated) => result \notin {"ok", "none"}
    /\ result = "ok" =>
         /\ Len(waveforms) = fhdr.nwfms
         /\ \A k \in 1..Len(waveforms) :
              Len(waveforms[k].wvdat.rawdat) = waveforms[k].wvdathdr.bufsz

C4_Witness ==
    /\ pc = "done"
    /\ wvhdr.exists
    /\ wvhdr.sz > WfHdrSize
    /\ shortRead
    /\ lastHdr.T = "data"
    /\ result = "struct.error"

\* C5: a full iteration of a buffer built from N*bpp bytes yields exactly N
\* values, equal to the list to_list returns and to the indexed reads
\* 0..N-1, before and after any number of to_list calls.
C5_Claim ==
    (buf.exists /\ Len(buf.rawdat) = BufLen(buf) * buf.bpp /\ lastCall.op = "iter") =>
        /\ Len(lastCall.ret.seq) = BufLen(buf)
        /\ lastCall.ret.seq = ToListOut(buf).seq
        /\ \A k \in 1..Len(lastCall.ret.seq) :
             lastCall.ret.seq[k] = GetItemOut(buf, k - 1).val

\* C6: the x-coordinate list of a buffer of length N has exactly N elements,
\* the i-th (0-based) being xorigin + i * xincr.
C6_Claim ==
    (buf.exists /\ lastCall.op = "xlist") =>
        /\ Len(lastCall.ret.seq) = BufLen(buf)
        /\ \A k \in 1..Len(lastCall.ret.seq) :
             lastCall.ret.seq[k] = buf.xorigin + (k - 1) * buf.xincr

\* C7: every to_list call returns what the earlier to_list calls on the same
\* buffer returned, and leaves the raw bytes, bpp and len() unchanged.
C7_ToListIdempotent ==
    [][ToList =>
        /\ buf'.rawdat = buf.rawdat
        /\ buf'.bpp = buf.bpp
        /\ BufLen(buf') = BufLen(buf)
        /\ lastCall.op = "to_list" => lastCall'.ret = lastCall.ret
        /\ buf.pylist.set =>
             (lastCall'.ret.err = "" /\ lastCall'.ret.seq = buf.pylist.val)
        /\ (toListCalls > 0 /\ ~buf.pylist.set) => lastCall'.ret.err # ""]_vars

C7_Witness ==
    /\ toListCalls = 2
    /\ lastCall.op = "to_list"
    /\ lastCall.ret.err = ""
    /\ Len(lastCall.ret.seq) >= 2

\* C8: constructing a sample buffer with a bpp other than 1 or 4 fails; no
\* buffer with such a bpp exists, and read_rigol_bin returns no result for a
\* file whose data header has such a bpp.
C8_UnsupportedWidthRejected ==
    /\ buf.exists => buf.bpp \in Supported
    /\ (lastCall.op \in {"init", "read_from_stream"} /\ lastCall.bpp \notin Supported) =>
         (lastCall.ret.err # "" /\ ~buf.exists)
    /\ \A k \in 1..Len(waveforms) : waveforms[k].wvdat.bpp \in Supported
    /\ (wvdathdr.exists /\ wvdathdr.bpp \notin Supported /\ pc = "done") =>
         result \notin {"ok", "none"}

C8_Witness ==
    /\ lastCall.op = "init"
    /\ lastCall.bpp = 3
    /\ {"xorigin", "xincr"} \subseteq moduleGlobals
    /\ lastCall.ret.err = "ValueError"
    /\ ~buf.exists

\* C9: constructing a buffer whose raw length is not a multiple of bpp
\* fails, so every constructed buffer has len() * bpp equal to its raw
\* length.
C9_Claim ==
    /\ buf.exists => BufLen(buf) * buf.bpp = Len(buf.rawdat)
    /\ (lastCall.op = "init" /\ lastCall.bpp \in Supported
          /\ lastCall.rawlen % lastCall.bpp # 0) => lastCall.ret.err # ""

\* C10: buf[i] has the same outcome whether or not to_list has been called:
\* sample i for 0 <= i < len(), an error for every other i.
C10_Claim ==
    (buf.exists /\ lastCall.op = "getitem") =>
        LET unmat == GetItemOut([buf EXCEPT !.pylist = NoPyList], lastCall.idx)
        IN  /\ (lastCall.ret.err = "") = (unmat.err = "")
            /\ lastCall.ret.val = unmat.val
            /\ (lastCall.idx >= 0 /\ lastCall.idx < BufLen(buf)) =>
                 (lastCall.ret.err = "" /\ lastCall.ret.val = RawItems(buf)[lastCall.idx + 1])
            /\ (lastCall.idx < 0 \/ lastCall.idx >= BufLen(buf)) => lastCall.ret.err # ""
====
